---- MODULE Spec2Model ----
(***************************************************************************)
(* Model of the Camunda advisory service (src/app.py): four Flask          *)
(* handlers over a MongoDB database and a language-model client.           *)
(*                                                                         *)
(* Python values are modelled as follows.                                  *)
(*   dict      a function whose DOMAIN is the set of keys that are present *)
(*   list      a sequence                                                  *)
(*   str       a TLA+ string where the code only compares it; the sequence *)
(*             of its Unicode code points where the code parses, joins or  *)
(*             strips it (dates, PO numbers, city and country names, the   *)
(*             strings of the language model's answer)                     *)
(*   datetime  the number of hours since 0001-01-01 00:00                  *)
(*   int/str/None in one field (PO_NBR)   a tagged record, see PyInt       *)
(* A handler is an operator from the request body and the database to      *)
(* [response, queries]; the action that runs it stores both.  queries is   *)
(* the list of the external calls the handler made, in order; collab holds *)
(* what the page fetch and the language model answered in this request.    *)
(***************************************************************************)
EXTENDS Integers, Sequences, FiniteSets, TLC

VARIABLES db, pc, endpoint, request, response, queries, collab

vars == <<db, pc, endpoint, request, response, queries, collab>>

(***************************************************************************)
(* Bounds of the model.                                                    *)
(***************************************************************************)
\* stored shipments the route query is evaluated over
MaxShipments == 2
\* stored shipments + bookings + purchase orders of the contact chain
MaxRecords == 3
\* shipments in the body of one request
MaxInput == 2

(***************************************************************************)
(* Generic helpers for Python values.                                      *)
(***************************************************************************)
EmptyDict == [k \in {} |-> 0]

Get(d, k, default) == IF k \in DOMAIN d THEN d[k] ELSE default

Has(d, k) == k \in DOMAIN d

SeqsUpTo(S, n) == UNION {[1..m -> S] : m \in 0..n}

RECURSIVE SelectIdx(_, _, _)
\* the elements of seq at the positions satisfying keep, in order
SelectIdx(seq, keep, i) ==
    IF i > Len(seq) THEN <<>>
    ELSE (IF i \in keep THEN <<seq[i]>> ELSE <<>>) \o SelectIdx(seq, keep, i + 1)

PyInt(n) == [t |-> "int", i |-> n, s |-> <<>>]
PyStr(chars) == [t |-> "str", i |-> 0, s |-> chars]
PyNone == [t |-> "none", i |-> 0, s |-> <<>>]

\* the printable ASCII characters in code point order, without the grave
\* accent (U+0060): U+0020 to U+005F, then U+0061 to U+007E
AsciiLow ==
    <<" ", "!", "\"", "#", "$", "%", "&", "'", "(", ")", "*", "+", ",",
      "-", ".", "/", "0", "1", "2", "3", "4", "5", "6", "7", "8", "9", ":",
      ";", "<", "=", ">", "?", "@", "A", "B", "C", "D", "E", "F", "G", "H",
      "I", "J", "K", "L", "M", "N", "O", "P", "Q", "R", "S", "T", "U", "V",
      "W", "X", "Y", "Z", "[", "\\", "]", "^", "_">>
AsciiHigh ==
    <<"a", "b", "c", "d", "e", "f", "g", "h", "i", "j", "k", "l", "m", "n",
      "o", "p", "q", "r", "s", "t", "u", "v", "w", "x", "y", "z", "{", "|",
      "}", "~">>

\* ord(c) of one of these characters
Ord(c) ==
    IF \E i \in 1..Len(AsciiLow) : AsciiLow[i] = c
    THEN 31 + (CHOOSE i \in 1..Len(AsciiLow) : AsciiLow[i] = c)
    ELSE 96 + (CHOOSE i \in 1..Len(AsciiHigh) : AsciiHigh[i] = c)

\* the str made of the given characters
Text(chars) == [i \in 1..Len(chars) |-> Ord(chars[i])]

\* the code point of the digit zero of every Unicode decimal digit block
\* (category Nd): a block is ten consecutive code points, zero to nine.
\* The table is that of Unicode 15.0 and 15.1, which Python 3.12 and 3.13
\* carry (line 258 does not compile before 3.12)
DecimalZeros ==
    {48, 1632, 1776, 1984, 2406, 2534, 2662, 2790, 2918, 3046, 3174, 3302,
     3430, 3558, 3664, 3792, 3872, 4160, 4240, 6112, 6160, 6470, 6608,
     6784, 6800, 6992, 7088, 7232, 7248, 42528, 43216, 43264, 43472, 43504,
     43600, 44016, 65296, 66720, 68912, 69734, 69872, 69942, 70096, 70384,
     70736, 70864, 71248, 71360, 71472, 71904, 72016, 72784, 73040, 73120,
     73552, 92768, 92864, 93008, 120782, 120792, 120802, 120812, 120822,
     123200, 123632, 124144, 125264, 130032}

\* a character int() and the pattern \d take as a decimal digit
IsDecimal(c) == \E z \in DecimalZeros : c \in z..(z + 9)

DigitVal(c) == c - (CHOOSE z \in DecimalZeros : c \in z..(z + 9))

RECURSIVE DecVal(_)
\* value of a sequence of decimal digits
DecVal(cs) ==
    IF cs = <<>> THEN 0
    ELSE 10 * DecVal(SubSeq(cs, 1, Len(cs) - 1)) + DigitVal(cs[Len(cs)])

\* the characters "0" to "9", which a pattern such as [1-9] is made of
AsciiDigits == 48..57

(***************************************************************************)
(* parse_date: datetime.strptime(date_str, '%m/%d/%Y').                    *)
(***************************************************************************)
RECURSIVE SplitSlash(_, _, _)
\* the '/'-separated fields of cs; acc is the field being read
SplitSlash(cs, i, acc) ==
    IF i > Len(cs) THEN <<acc>>
    ELSE IF cs[i] = 47 THEN <<acc>> \o SplitSlash(cs, i + 1, <<>>)
    ELSE SplitSlash(cs, i + 1, Append(acc, cs[i]))

IsLeap(y) == (y % 4 = 0) /\ ((y % 100 # 0) \/ (y % 400 = 0))

DaysInMonth(y, m) ==
    IF m = 2 THEN (IF IsLeap(y) THEN 29 ELSE 28)
    ELSE IF m \in {4, 6, 9, 11} THEN 30 ELSE 31

RECURSIVE DaysBeforeMonth(_, _)
DaysBeforeMonth(y, m) ==
    IF m = 1 THEN 0 ELSE DaysBeforeMonth(y, m - 1) + DaysInMonth(y, m - 1)

DaysBeforeYear(y) ==
    (y - 1) * 365 + ((y - 1) \div 4) - ((y - 1) \div 100) + ((y - 1) \div 400)

ToOrdinal(y, m, d) == DaysBeforeYear(y) + DaysBeforeMonth(y, m) + d

\* datetime(y, m, d, h) as hours since 0001-01-01 00:00
DateTime(y, m, d, h) == (ToOrdinal(y, m, d) - 1) * 24 + h

\* %m: 1[0-2] | 0[1-9] | [1-9]
MonthField(f) ==
    /\ Len(f) \in {1, 2}
    /\ \A i \in 1..Len(f) : f[i] \in AsciiDigits
    /\ DecVal(f) \in 1..12

\* %d: 3[0-1] | [1-2]\d | 0[1-9] | [1-9] | ' '[1-9]
DayField(f) ==
    \/ Len(f) = 2 /\ f[1] = 51 /\ f[2] \in {48, 49}
    \/ Len(f) = 2 /\ f[1] \in {49, 50} /\ IsDecimal(f[2])
    \/ Len(f) = 2 /\ f[1] = 48 /\ f[2] \in 49..57
    \/ Len(f) = 1 /\ f[1] \in 49..57
    \/ Len(f) = 2 /\ f[1] = 32 /\ f[2] \in 49..57

DayVal(f) == IF f[1] = 32 THEN DigitVal(f[2]) ELSE DecVal(f)

\* %Y: \d\d\d\d
YearField(f) == Len(f) = 4 /\ \A i \in 1..4 : IsDecimal(f[i])

ParseError == [ok |-> FALSE, value |-> 0]

parse_date(date_str) ==
    LET f == SplitSlash(date_str, 1, <<>>) IN
    IF Len(f) # 3 THEN ParseError
    ELSE IF ~(MonthField(f[1]) /\ DayField(f[2]) /\ YearField(f[3])) THEN ParseError
    ELSE LET y == DecVal(f[3])
             m == DecVal(f[1])
             d == DayVal(f[2])
         IN IF y < 1 \/ d > DaysInMonth(y, m) THEN ParseError
            ELSE [ok |-> TRUE, value |-> DateTime(y, m, d, 0)]

(***************************************************************************)
(* Responses.                                                              *)
(***************************************************************************)
\* return jsonify(body), status
Jsonify(kind, body, status) == [status |-> status, kind |-> kind, body |-> body]

\* an exception that leaves the view function: Flask answers 500
Unhandled(exc) == [status |-> 500, kind |-> "unhandled", body |-> exc]

Result(resp, qs) == [response |-> resp, queries |-> qs]

\* str(doc['_id'])
StrId(doc) == [doc EXCEPT !["_id"] = [str |-> doc["_id"].oid]]

StrIds(docs) == [i \in 1..Len(docs) |-> StrId(docs[i])]

\* the collection holding the given documents, each with a store-native _id
Collection(docs) == [i \in 1..Len(docs) |-> docs[i] @@ ("_id" :> [oid |-> i])]

(***************************************************************************)
(* MongoDB filters.                                                        *)
(***************************************************************************)
\* {field: {'$in': values}}
MatchIn(doc, field, values) ==
    /\ Has(doc, field)
    /\ \E i \in 1..Len(values) : values[i] = doc[field]

\* a range filter that leaves the upper end out ('$lt' for '$lte')
MatchRangeOpenEnd(doc, field, lo, hi) ==
    /\ Has(doc, field)
    /\ doc[field] >= lo
    /\ doc[field] < hi

\* {field: {'$gte': lo, '$lte': hi}}
MatchRange(doc, field, lo, hi) ==
    /\ Has(doc, field)
    /\ doc[field] >= lo
    /\ doc[field] <= hi

(***************************************************************************)
(* POST /check_blog                                                        *)
(***************************************************************************)
\* JSON values of the language model's answer
\* (a string is the sequence of its code points, a number is an integer, a
\* list is the sequence of its elements)
JBool(b) == [t |-> "bool", b |-> b, l |-> <<>>, n |-> 0, items |-> <<>>]
JNull == [t |-> "null", b |-> FALSE, l |-> <<>>, n |-> 0, items |-> <<>>]
JList(items) == [t |-> "list", b |-> FALSE, l |-> <<>>, n |-> 0, items |-> items]
JStr(chars) == [t |-> "str", b |-> FALSE, l |-> chars, n |-> 0, items |-> <<>>]
JNum(n) == [t |-> "num", b |-> FALSE, l |-> <<>>, n |-> n, items |-> <<>>]

\* ASCII lower case of one character
Lower(c) == IF c \in 65..90 THEN c + 32 ELSE c

\* the strings a `bool` field takes for False and for True, whatever the
\* case of their letters
FalseWords ==
    {Text(<<"0">>), Text(<<"f">>), Text(<<"n">>), Text(<<"n", "o">>),
     Text(<<"o", "f", "f">>), Text(<<"f", "a", "l", "s", "e">>)}
TrueWords ==
    {Text(<<"1">>), Text(<<"t">>), Text(<<"y">>), Text(<<"o", "n">>),
     Text(<<"y", "e", "s">>), Text(<<"t", "r", "u", "e">>)}

\* is_weather_forecast: bool, validated the way pydantic does by default:
\* a boolean is taken as it is, a string that spells a boolean and the
\* numbers 0 and 1 are converted, anything else is a ValidationError
BoolOf(v) ==
    LET word == [i \in 1..Len(v.l) |-> Lower(v.l[i])] IN
    IF v.t = "bool" THEN [ok |-> TRUE, value |-> v.b]
    ELSE IF v.t = "str" /\ word \in FalseWords THEN [ok |-> TRUE, value |-> FALSE]
    ELSE IF v.t = "str" /\ word \in TrueWords THEN [ok |-> TRUE, value |-> TRUE]
    ELSE IF v.t = "num" /\ v.n \in {0, 1} THEN [ok |-> TRUE, value |-> v.n = 1]
    ELSE [ok |-> FALSE, value |-> FALSE]

\* list[str] | None: null, or a list whose every element is a string
StrListOrNone(v) ==
    \/ v.t = "null"
    \/ v.t = "list" /\ \A i \in 1..Len(v.items) : v.items[i].t = "str"

\* class WeatherForecastResponse(BaseModel): three required fields; keys the
\* class does not declare are ignored (pydantic's default)
Validates(payload) ==
    /\ Has(payload, "is_weather_forecast")
    /\ BoolOf(payload["is_weather_forecast"]).ok
    /\ Has(payload, "area_affected")
    /\ StrListOrNone(payload["area_affected"])
    /\ Has(payload, "duration")
    /\ StrListOrNone(payload["duration"])

\* getattr(response, "output_text", "No raw text available")
RawText(llm) ==
    IF llm.has_output_text
    THEN [available |-> TRUE, text |-> llm.payload]
    ELSE [available |-> FALSE, text |-> EmptyDict]

\* fetched: what fetch_blog_content does for the URL; llm: what the model
\* client does with the text
check_blog(data, fetched, llm) ==
    IF Get(data, "blog_url", "") = ""
    THEN Result(Jsonify("error", [error |-> "Please provide a 'blog_url'"], 400), <<>>)
    ELSE IF ~fetched.ok
    THEN Result(Jsonify("error", [error |-> "Failed to fetch or read blog content"], 400),
                <<"fetch">>)
    ELSE IF llm.error # ""
    THEN Result(Jsonify("error", [error |-> llm.error], 400), <<"fetch", "llm">>)
    ELSE IF ~Validates(llm.payload)
    THEN IF llm.validated_at = "parse"
         \* ValidationError out of client.responses.parse: the handler reads
         \* the local `response` that was never assigned
         THEN Result(Unhandled("UnboundLocalError"), <<"fetch", "llm">>)
         ELSE Result(Jsonify("error",
                             [error |-> "Invalid AI response structure",
                              validation_error |-> "ValidationError",
                              raw_ai_response |-> RawText(llm)],
                             400),
                     <<"fetch", "llm">>)
    ELSE IF llm.refused
    \* output_parsed is None: AttributeError, caught by `except Exception`
    THEN Result(Jsonify("error", [error |-> "AttributeError"], 400), <<"fetch", "llm">>)
    ELSE Result(Jsonify("object",
                        [is_weather_forecast |-> BoolOf(llm.payload["is_weather_forecast"]).value,
                         area_affected |-> llm.payload["area_affected"],
                         duration |-> llm.payload["duration"]],
                        200),
                <<"fetch", "llm">>)

(***************************************************************************)
(* POST /get_impacted_routes                                               *)
(***************************************************************************)
RoutesQuery(doc, affected_areas, start_date, end_date) ==
    /\ \/ MatchIn(doc, "DEST_COUNTRY_CD", affected_areas)
       \/ MatchIn(doc, "DESTINATION_CUST_LOCATION_CD", affected_areas)
    /\ MatchRange(doc, "ACT_DLVY_DT", start_date, end_date)

FindRoutes(coll, affected_areas, start_date, end_date) ==
    SelectIdx(coll,
              {i \in 1..Len(coll) :
                  RoutesQuery(coll[i], affected_areas, start_date, end_date)},
              1)

\* the handler with the duration length check placed before the area check
get_impacted_routes_duration_first(data, store) ==
    LET affected_areas == Get(data, "area_affected", <<>>)
        duration == Get(data, "duration", <<>>)
    IN
    IF Len(duration) # 2
    THEN Result(Unhandled("ValueError"), <<>>)
    ELSE IF affected_areas = <<>>
    THEN Result(Jsonify("list", <<>>, 400), <<>>)
    ELSE LET start_date == parse_date(duration[1])
             end_date == parse_date(duration[2])
         IN IF ~start_date.ok \/ ~end_date.ok
            THEN Result(Unhandled("ValueError"), <<>>)
            ELSE Result(Jsonify("list",
                                StrIds(FindRoutes(store.shipments, affected_areas,
                                                  start_date.value, end_date.value)),
                                200),
                        <<"shipments">>)

get_impacted_routes(data, store) ==
    LET affected_areas == Get(data, "area_affected", <<>>)
        duration == Get(data, "duration", <<>>)
    IN
    IF affected_areas = <<>>
    THEN Result(Jsonify("list", <<>>, 400), <<>>)
    ELSE IF Len(duration) # 2
    THEN Result(Unhandled("ValueError"), <<>>)
    ELSE LET start_date == parse_date(duration[1])
             end_date == parse_date(duration[2])
         IN IF ~start_date.ok \/ ~end_date.ok
            THEN Result(Unhandled("ValueError"), <<>>)
            ELSE Result(Jsonify("list",
                                StrIds(FindRoutes(store.shipments, affected_areas,
                                                  start_date.value, end_date.value)),
                                200),
                        <<"shipments">>)

(***************************************************************************)
(* POST /get_impacted_bookings                                             *)
(***************************************************************************)
\* [item[key] for item in docs]
Column(docs, key) == [i \in 1..Len(docs) |-> docs[i][key]]

\* some item of docs has no such key: the comprehension raises KeyError
KeyMissing(docs, key) == \E i \in 1..Len(docs) : ~Has(docs[i], key)

RECURSIVE FindPerValue(_, _, _)
\* one lookup per listed value, the results concatenated
FindPerValue(coll, field, values) ==
    IF values = <<>> THEN <<>>
    ELSE SelectIdx(coll,
                   {i \in 1..Len(coll) : MatchIn(coll[i], field, <<Head(values)>>)},
                   1)
         \o FindPerValue(coll, field, Tail(values))

\* collection.find({field: {'$in': values}}), in store order
FindIn(coll, field, values) ==
    SelectIdx(coll, {i \in 1..Len(coll) : MatchIn(coll[i], field, values)}, 1)

get_impacted_bookings(data, store) ==
    LET affected_shipments == Get(data, "affected_shipments", <<>>) IN
    IF affected_shipments = <<>>
    THEN Result(Jsonify("list", <<>>, 400), <<>>)
    ELSE IF KeyMissing(affected_shipments, "BK_NBR")
    THEN Result(Unhandled("KeyError"), <<>>)
    ELSE Result(Jsonify("list",
                        StrIds(FindIn(store.bookings, "booking_number",
                                      Column(affected_shipments, "BK_NBR"))),
                        200),
                <<"bookings">>)

(***************************************************************************)
(* POST /get_customer_preferences                                          *)
(***************************************************************************)
RECURSIVE LStrip(_, _)
LStrip(cs, chars) ==
    IF cs # <<>> /\ Head(cs) \in chars THEN LStrip(Tail(cs), chars) ELSE cs

RECURSIVE RStrip(_, _)
RStrip(cs, chars) ==
    IF cs # <<>> /\ cs[Len(cs)] \in chars
    THEN RStrip(SubSeq(cs, 1, Len(cs) - 1), chars)
    ELSE cs

\* f"{city}, {country}".strip(", "): 44 is the comma, 32 the space
Address(city, country) == RStrip(LStrip(city \o <<44, 32>> \o country, {44, 32}), {44, 32})

\* the characters int() strips from both ends of a string: U+0009 to U+000D,
\* the space, U+0085, U+00A0, U+1680, U+2000 to U+200A, U+2028, U+2029,
\* U+202F, U+205F and U+3000
Whitespace ==
    (9..13) \cup {32, 133, 160, 5760} \cup (8192..8202)
        \cup {8232, 8233, 8239, 8287, 12288}

\* decimal digits with single underscores (95) between them: what int()
\* accepts after the sign
IntLiteral(cs) ==
    /\ cs # <<>>
    /\ \A i \in 1..Len(cs) : IsDecimal(cs[i]) \/ cs[i] = 95
    /\ IsDecimal(cs[1])
    /\ IsDecimal(cs[Len(cs)])
    /\ \A i \in 1..(Len(cs) - 1) : ~(cs[i] = 95 /\ cs[i + 1] = 95)

\* int(x) for the values a PO_NBR field holds: an int is kept, None is a
\* TypeError, a string is stripped of whitespace and read as an optional
\* sign and a decimal literal
IntOf(x) ==
    IF x.t = "int" THEN [exc |-> "", value |-> x]
    ELSE IF x.t = "none" THEN [exc |-> "TypeError", value |-> x]
    ELSE
    LET stripped == RStrip(LStrip(x.s, Whitespace), Whitespace)
        \* 43 is "+", 45 is "-"
        signed == stripped # <<>> /\ stripped[1] \in {43, 45}
        literal == IF signed THEN Tail(stripped) ELSE stripped
        magnitude == DecVal(SelectSeq(literal, IsDecimal))
    IN
    IF ~IntLiteral(literal) THEN [exc |-> "ValueError", value |-> x]
    ELSE IF signed /\ stripped[1] = 45 THEN [exc |-> "", value |-> PyInt(0 - magnitude)]
    ELSE [exc |-> "", value |-> PyInt(magnitude)]

\* int(item["PO_NBR"]) for one fetched booking: the key is read, then converted
IntOfPONumber(booking) ==
    IF ~Has(booking, "PO_NBR") THEN [exc |-> "KeyError", value |-> PyNone]
    ELSE IntOf(booking["PO_NBR"])

\* next((item for item in docs if item[key] == value), None): 0 stands for None
FirstWith(docs, key, value) ==
    IF \E i \in 1..Len(docs) : docs[i][key] = value
    THEN CHOOSE i \in 1..Len(docs) :
            /\ docs[i][key] = value
            /\ \A j \in 1..(i - 1) : docs[j][key] # value
    ELSE 0

\* the shipment keys read when a contact is seeded, in the order read
RequiredFields ==
    <<"CUST_ACCT_CD", "CLP_CUST_ACCT_CD", "DEST_COUNTRY_CD", "NOTIFY1_NAME", "NOTIFY2_NAME">>

\* bookings of the given numbers, then the purchase orders of those bookings
FetchBookingsAndPOs(booking_numbers, done, store) ==
    LET bookings == FindIn(store.bookings, "booking_number", booking_numbers)
        asked == done \o <<"bookings">>
    IN
    \* the comprehension converts booking by booking: the first that fails decides
    LET converted == [i \in 1..Len(bookings) |-> IntOfPONumber(bookings[i])] IN
    IF \E i \in 1..Len(converted) : converted[i].exc # ""
    THEN [exc |-> converted[CHOOSE i \in 1..Len(converted) :
                               /\ converted[i].exc # ""
                               /\ \A j \in 1..(i - 1) : converted[j].exc = ""].exc,
          queries |-> asked, bookings |-> <<>>, pos |-> <<>>]
    ELSE
    LET po_numbers == [i \in 1..Len(converted) |-> converted[i].value] IN
    [exc |-> "",
     queries |-> asked \o <<"purchase_orders">>,
     bookings |-> bookings,
     pos |-> FindIn(store.purchase_orders, "PO_NBR", po_numbers)]

\* the bulk fetches with the bookings looked up by the request's own BK_NBR
FetchChainByRequestBooking(affected_shipments, store) ==
    IF KeyMissing(affected_shipments, "CLP_NBR") \/ KeyMissing(affected_shipments, "BK_NBR")
    THEN [exc |-> "KeyError", queries |-> <<>>, bookings |-> <<>>, pos |-> <<>>]
    ELSE FetchBookingsAndPOs(Column(affected_shipments, "BK_NBR"), <<"shipments">>, store)

\* the steps of the try block before the loop: the three bulk fetches
FetchChain(affected_shipments, store) ==
    IF KeyMissing(affected_shipments, "CLP_NBR")
    THEN [exc |-> "KeyError", queries |-> <<>>, bookings |-> <<>>, pos |-> <<>>]
    ELSE
    LET shipments == FindIn(store.shipments, "CLP_NBR", Column(affected_shipments, "CLP_NBR")) IN
    IF KeyMissing(shipments, "BK_NBR")
    THEN [exc |-> "KeyError", queries |-> <<"shipments">>, bookings |-> <<>>, pos |-> <<>>]
    ELSE FetchBookingsAndPOs(Column(shipments, "BK_NBR"), <<"shipments">>, store)

\* a loop body that reads the shipment keys with a default instead of d[key]
ContactInfoLenient(shipment, bookings, pos) ==
    [exc |-> "",
     contact |-> [account_code |-> Get(shipment, "CUST_ACCT_CD", ""),
                  customer_name |-> Get(shipment, "CLP_CUST_ACCT_CD", ""),
                  country |-> Get(shipment, "DEST_COUNTRY_CD", ""),
                  notify1_name |-> Get(shipment, "NOTIFY1_NAME", ""),
                  notify2_name |-> Get(shipment, "NOTIFY2_NAME", ""),
                  account_name |-> "",
                  shipper_name |-> "",
                  trdg_prtnr_name |-> "",
                  city |-> <<>>,
                  address |-> <<>>,
                  destination_country |-> <<>>]]

\* one pass of the loop body: the contact of one input shipment
ContactInfo(shipment, bookings, pos) ==
    IF \E k \in 1..Len(RequiredFields) : ~Has(shipment, RequiredFields[k])
    THEN [exc |-> "KeyError", contact |-> EmptyDict]
    ELSE IF bookings # <<>> /\ ~Has(shipment, "BK_NBR")
    THEN [exc |-> "KeyError", contact |-> EmptyDict]
    ELSE
    LET seeded == [account_code |-> shipment["CUST_ACCT_CD"],
                   customer_name |-> shipment["CLP_CUST_ACCT_CD"],
                   country |-> shipment["DEST_COUNTRY_CD"],
                   notify1_name |-> shipment["NOTIFY1_NAME"],
                   notify2_name |-> shipment["NOTIFY2_NAME"],
                   account_name |-> "",
                   shipper_name |-> "",
                   trdg_prtnr_name |-> "",
                   city |-> <<>>,
                   address |-> <<>>,
                   destination_country |-> <<>>]
        b == IF bookings = <<>> THEN 0
             ELSE FirstWith(bookings, "booking_number", shipment["BK_NBR"])
    IN
    IF b = 0 THEN [exc |-> "", contact |-> seeded]
    ELSE IF \E k \in {"ACCOUNT_NAME", "shipper_name", "TRDG_PRTNR_NAME"} : ~Has(bookings[b], k)
    THEN [exc |-> "KeyError", contact |-> EmptyDict]
    ELSE
    LET booked == [seeded EXCEPT !.account_name = bookings[b]["ACCOUNT_NAME"],
                                 !.shipper_name = bookings[b]["shipper_name"],
                                 !.trdg_prtnr_name = bookings[b]["TRDG_PRTNR_NAME"]]
        p == FirstWith(pos, "PO_NBR", bookings[b]["PO_NBR"])
    IN
    IF p = 0 THEN [exc |-> "", contact |-> booked]
    ELSE IF \E k \in {"DESTINATION_CUST_CITY_NAME", "DESTINATION_CUST_COUNTRY_NAME"} :
               ~Has(pos[p], k)
    THEN [exc |-> "KeyError", contact |-> EmptyDict]
    ELSE [exc |-> "",
          contact |->
              [booked EXCEPT !.city = pos[p]["DESTINATION_CUST_CITY_NAME"],
                             !.address = Address(pos[p]["DESTINATION_CUST_CITY_NAME"],
                                                 pos[p]["DESTINATION_CUST_COUNTRY_NAME"]),
                             !.destination_country = pos[p]["DESTINATION_CUST_COUNTRY_NAME"]]]

\* the loop run over the request's list from its last element to its first
ContactInfoListReversed(affected_shipments, bookings, pos) ==
    [i \in 1..Len(affected_shipments) |->
        ContactInfo(affected_shipments[Len(affected_shipments) + 1 - i], bookings, pos)]

\* the loop: one pass per element of the request's list, in its order
ContactInfoList(affected_shipments, bookings, pos) ==
    [i \in 1..Len(affected_shipments) |-> ContactInfo(affected_shipments[i], bookings, pos)]

\* return jsonify({"error": str(e)}), 500
ErrorResponse(exc) == Jsonify("error", [error |-> exc], 500)

get_customer_preferences(data, store) ==
    LET affected_shipments == Get(data, "affected_shipments", <<>>) IN
    IF affected_shipments = <<>>
    THEN Result(Jsonify("list", <<>>, 400), <<>>)
    ELSE
    LET chain == FetchChain(affected_shipments, store) IN
    IF chain.exc # "" THEN Result(ErrorResponse(chain.exc), chain.queries)
    ELSE
    LET passes == ContactInfoList(affected_shipments, chain.bookings, chain.pos) IN
    IF \E i \in 1..Len(passes) : passes[i].exc # ""
    THEN Result(ErrorResponse("KeyError"), chain.queries)
    ELSE Result(Jsonify("object",
                        [contacts |-> [i \in 1..Len(passes) |-> passes[i].contact]],
                        200),
                chain.queries)

(***************************************************************************)
(* Request bodies and store contents of the route query.                   *)
(***************************************************************************)
D_0504 == Text(<<"0", "5", "/", "0", "4", "/", "2", "0", "2", "5">>)
D_0505 == Text(<<"0", "5", "/", "0", "5", "/", "2", "0", "2", "5">>)
D_0506 == Text(<<"0", "5", "/", "0", "6", "/", "2", "0", "2", "5">>)
\* accepted by strptime although not zero-padded
D_55 == Text(<<"5", "/", "5", "/", "2", "0", "2", "5">>)
\* ISO order: not MM/DD/YYYY
D_ISO == Text(<<"2", "0", "2", "5", "-", "0", "5", "-", "0", "5">>)
\* well-formed but no such day
D_0230 == Text(<<"0", "2", "/", "3", "0", "/", "2", "0", "2", "5">>)

DateStrings == {D_0504, D_0505, D_0506, D_55, D_ISO, D_0230}

Durations == SeqsUpTo(DateStrings, 2) \cup {<<D_0504, D_0505, D_0506>>}

AreaLists == {<<>>, <<"CA">>, <<"NV">>, <<"CA", "NV">>}

OptionalKey(k, values) == {EmptyDict} \cup {k :> v : v \in values}

RoutesRequests ==
    {a @@ d @@ ("is_weather_forecast" :> TRUE) :
        a \in OptionalKey("area_affected", AreaLists),
        d \in OptionalKey("duration", Durations)}

\* stored shipments as the route query sees them
RouteShipments ==
    [DEST_COUNTRY_CD : {"CA", "TX"},
     DESTINATION_CUST_LOCATION_CD : {"NV", "OR"},
     ACT_DLVY_DT : {DateTime(2025, 5, 5, 0), DateTime(2025, 5, 5, 12)},
     CLP_NBR : {1},
     BK_NBR : {"B1"}]

NoRequest == [none |-> TRUE]

NoResponse == [status |-> 0, kind |-> "none", body |-> <<>>]

NotCalled == [called |-> FALSE]

NoCollab == [fetch |-> NotCalled, llm |-> NotCalled]

Database(shipments, bookings, purchase_orders) ==
    [shipments |-> Collection(shipments),
     bookings |-> Collection(bookings),
     purchase_orders |-> Collection(purchase_orders)]

Idle ==
    /\ pc = "idle"
    /\ endpoint = "none"
    /\ request = NoRequest
    /\ response = NoResponse
    /\ queries = <<>>
    /\ collab = NoCollab

InitRoutes ==
    /\ \E ss \in SeqsUpTo(RouteShipments, MaxShipments) : db = Database(ss, <<>>, <<>>)
    /\ Idle

PostImpactedRoutes ==
    /\ pc = "idle"
    /\ \E data \in RoutesRequests :
          LET result == get_impacted_routes(data, db) IN
          /\ request' = data
          /\ response' = result.response
          /\ queries' = result.queries
    /\ endpoint' = "/get_impacted_routes"
    /\ pc' = "done"
    /\ UNCHANGED <<db, collab>>

\* the server waits for the next request; nothing of a request is kept
NextRequest ==
    /\ pc = "done"
    /\ pc' = "idle"
    /\ endpoint' = "none"
    /\ request' = NoRequest
    /\ response' = NoResponse
    /\ queries' = <<>>
    /\ collab' = NoCollab
    /\ UNCHANGED db

NextRoutes == PostImpactedRoutes \/ NextRequest

SpecRoutes == InitRoutes /\ [][NextRoutes]_vars

(***************************************************************************)
(* Request bodies and store contents of the booking and contact lookups.   *)
(***************************************************************************)
Reno == Text(<<"R", "e", "n", "o">>)
US == Text(<<"U", "S">>)

Shipment(clp, bk, acct) ==
    [CLP_NBR |-> clp,
     BK_NBR |-> bk,
     CUST_ACCT_CD |-> acct,
     CLP_CUST_ACCT_CD |-> "Acme",
     DEST_COUNTRY_CD |-> "CA",
     DESTINATION_CUST_LOCATION_CD |-> "NV",
     ACT_DLVY_DT |-> DateTime(2025, 5, 5, 0),
     NOTIFY1_NAME |-> "Ann",
     NOTIFY2_NAME |-> "Bob"]

\* the dict d with key k deleted
Without(d, k) == [x \in DOMAIN d \ {k} |-> d[x]]

Ship1 == Shipment(1, "B1", "ACC1")
Ship2 == Shipment(2, "B2", "ACC2")

\* shipments a request carries: complete ones and ones with a key missing
InputShipments ==
    {Ship1, Ship2}
    \cup {Without(Ship1, RequiredFields[k]) : k \in 1..Len(RequiredFields)}
    \cup {Without(Ship1, "BK_NBR"), Without(Ship2, "CLP_NBR")}

ShipmentRequests ==
    OptionalKey("affected_shipments", SeqsUpTo(InputShipments, MaxInput))

\* stored shipments of the contact chain: the same CLP_NBR under two bookings
ChainShipments == {Shipment(1, "B1", "ACC1"), Shipment(1, "B2", "ACC1")}

Booking(number, po, name) ==
    [booking_number |-> number,
     PO_NBR |-> po,
     ACCOUNT_NAME |-> name,
     shipper_name |-> "ShipCo",
     TRDG_PRTNR_NAME |-> "Partner"]

StoredBookings ==
    {Booking("B1", PyInt(7), "AccountA"),
     Booking("B1", PyStr(Text(<<"7">>)), "AccountB"),
     Booking("B2", PyInt(7), "AccountC"),
     Booking("B2", PyNone, "AccountD"),
     \* no-break space, vertical tab, ARABIC-INDIC DIGIT SEVEN: int() gives 7
     Booking("B2", PyStr(<<160, 11, 1639>>), "AccountE"),
     Without(Booking("B2", PyInt(7), "AccountF"), "PO_NBR")}

PurchaseOrder(po, city) ==
    [PO_NBR |-> po,
     DESTINATION_CUST_CITY_NAME |-> city,
     DESTINATION_CUST_COUNTRY_NAME |-> US]

StoredPurchaseOrders ==
    {PurchaseOrder(PyInt(7), Reno),
     PurchaseOrder(PyInt(7), <<>>),
     PurchaseOrder(PyStr(Text(<<"7">>)), Reno)}

InitBookings ==
    /\ \E bs \in SeqsUpTo(StoredBookings, MaxRecords) : db = Database(<<>>, bs, <<>>)
    /\ Idle

InitContacts ==
    /\ \E n1 \in 0..MaxRecords :
       \E n2 \in 0..(MaxRecords - n1) :
       \E n3 \in 0..(MaxRecords - n1 - n2) :
       \E ss \in [1..n1 -> ChainShipments] :
       \E bs \in [1..n2 -> StoredBookings] :
       \E ps \in [1..n3 -> StoredPurchaseOrders] :
          db = Database(ss, bs, ps)
    /\ Idle

PostImpactedBookings ==
    /\ pc = "idle"
    /\ \E data \in ShipmentRequests :
          LET result == get_impacted_bookings(data, db) IN
          /\ request' = data
          /\ response' = result.response
          /\ queries' = result.queries
    /\ endpoint' = "/get_impacted_bookings"
    /\ pc' = "done"
    /\ UNCHANGED <<db, collab>>

PostCustomerPreferences ==
    /\ pc = "idle"
    /\ \E data \in ShipmentRequests :
          LET result == get_customer_preferences(data, db) IN
          /\ request' = data
          /\ response' = result.response
          /\ queries' = result.queries
    /\ endpoint' = "/get_customer_preferences"
    /\ pc' = "done"
    /\ UNCHANGED <<db, collab>>

NextBookings == PostImpactedBookings \/ NextRequest

SpecBookings == InitBookings /\ [][NextBookings]_vars

NextContacts == PostCustomerPreferences \/ NextRequest

SpecContacts == InitContacts /\ [][NextContacts]_vars

(***************************************************************************)
(* Request bodies and collaborator answers of the blog check.              *)
(***************************************************************************)
BlogRequests == OptionalKey("blog_url", {"", "https://weatherwest.com/"})

FetchOutcomes ==
    [called : {TRUE}, ok : {FALSE}, text : {""}]
    \cup [called : {TRUE}, ok : {TRUE}, text : {"", "Storm over CA"}]

\* answers of the model: every field present with a right or a wrong type, or
\* missing, with or without a key the schema does not have
Payloads ==
    {a @@ b @@ c @@ d :
        a \in OptionalKey("is_weather_forecast",
                           {JBool(TRUE), JBool(FALSE), JNull,
                            JStr(Text(<<"Y", "e", "s">>)),
                            JStr(Text(<<"m", "a", "y", "b", "e">>)),
                            JNum(0), JNum(2)}),
        b \in OptionalKey("area_affected",
                           {JNull, JList(<<JStr(Text(<<"C", "A">>))>>),
                            JList(<<JNum(1)>>), JStr(Text(<<"C", "A">>))}),
        c \in OptionalKey("duration",
                           {JNull, JList(<<JStr(D_0504), JStr(D_0506)>>),
                            JList(<<JStr(D_0504), JNull>>)}),
        d \in OptionalKey("comment", {JStr(Text(<<"n", "/", "a">>))})}

ValidPayload ==
    [is_weather_forecast |-> JBool(FALSE), area_affected |-> JNull, duration |-> JNull]

\* error: an exception of the client other than ValidationError (it comes
\* before anything else of the answer is looked at); refused: output_parsed
\* is None; validated_at: the statement at which a payload that does not fit
\* the schema raises ValidationError
LLMOutcomes ==
    [called : {TRUE},
     error : {""},
     refused : {FALSE},
     payload : Payloads,
     validated_at : {"parse", "output_parsed"},
     has_output_text : BOOLEAN]
    \cup
    [called : {TRUE},
     error : {"", "APIError"},
     refused : {TRUE},
     payload : {ValidPayload},
     validated_at : {"parse"},
     has_output_text : {TRUE}]

InitBlog ==
    /\ db = Database(<<>>, <<>>, <<>>)
    /\ Idle

PostCheckBlog ==
    /\ pc = "idle"
    /\ \E data \in BlogRequests, fetched \in FetchOutcomes, llm \in LLMOutcomes :
          LET result == check_blog(data, fetched, llm) IN
          /\ request' = data
          /\ response' = result.response
          /\ queries' = result.queries
          /\ collab' = [fetch |-> IF Len(result.queries) >= 1 THEN fetched ELSE NotCalled,
                        llm |-> IF Len(result.queries) >= 2 THEN llm ELSE NotCalled]
    /\ endpoint' = "/check_blog"
    /\ pc' = "done"
    /\ UNCHANGED db

NextBlog == PostCheckBlog \/ NextRequest

SpecBlog == InitBlog /\ [][NextBlog]_vars

(***************************************************************************)
(* Properties of POST /get_impacted_routes.                                *)
(***************************************************************************)
RoutesDone == pc = "done" /\ endpoint = "/get_impacted_routes"

\* the date strings of DateStrings that are dates in MM/DD/YYYY, and the
\* midnight each one names (hours since 0001-01-01 00:00)
ValidDateStrings == {D_0504, D_0505, D_0506, D_55}

Midnight(date_str) ==
    CASE date_str = D_0504 -> 17744976
      [] date_str = D_0505 -> 17745000
      [] date_str = D_55 -> 17745000
      [] date_str = D_0506 -> 17745024

AreasGiven == Has(request, "area_affected") /\ request["area_affected"] # <<>>

ValidDuration ==
    /\ Has(request, "duration")
    /\ Len(request["duration"]) = 2
    /\ \A i \in 1..2 : request["duration"][i] \in ValidDateStrings

InAreas(code) ==
    \E i \in 1..Len(request["area_affected"]) : request["area_affected"][i] = code

\* the stored shipment with store id i is in the response body
Returned(i) == \E j \in 1..Len(response.body) : response.body[j]["_id"] = [str |-> i]

Impacted(shipment) ==
    /\ \/ InAreas(shipment["DEST_COUNTRY_CD"])
       \/ InAreas(shipment["DESTINATION_CUST_LOCATION_CD"])
    /\ Midnight(request["duration"][1]) <= shipment["ACT_DLVY_DT"]
    /\ shipment["ACT_DLVY_DT"] <= Midnight(request["duration"][2])

\* C1: with a non-empty area list and a valid two-date duration the handler
\* answers 200 with exactly the stored shipments whose destination country or
\* customer-location code is in the area list and whose delivery date lies in
\* [start, end], both ends included.
InvC1_RoutesExactMatch ==
    (RoutesDone /\ AreasGiven /\ ValidDuration) =>
        /\ response.status = 200
        /\ response.kind = "list"
        /\ \A i \in 1..Len(db.shipments) : Returned(i) <=> Impacted(db.shipments[i])
        /\ Len(response.body) =
               Cardinality({i \in 1..Len(db.shipments) : Impacted(db.shipments[i])})

\* a shipment delivered exactly at the end of the window (and after its
\* start), matched through its location code only, is returned, while a
\* shipment delivered later on that last day is not
WitC1_EndBoundaryReturned ==
    /\ RoutesDone /\ AreasGiven /\ ValidDuration
    /\ Midnight(request["duration"][1]) < Midnight(request["duration"][2])
    /\ \E i, j \in 1..Len(db.shipments) :
          /\ Returned(i)
          /\ db.shipments[i]["ACT_DLVY_DT"] = Midnight(request["duration"][2])
          /\ ~InAreas(db.shipments[i]["DEST_COUNTRY_CD"])
          /\ ~Returned(j)
          /\ db.shipments[j]["ACT_DLVY_DT"] > Midnight(request["duration"][2])

InvalidDuration ==
    \/ ~Has(request, "duration")
    \/ Len(request["duration"]) # 2
    \/ \E i \in 1..Len(request["duration"]) :
          request["duration"][i] \notin ValidDateStrings

\* C6: with a non-empty area list, a duration that is missing, not two
\* elements long or not made of MM/DD/YYYY dates is answered with a 4xx
\* status, and the shipment store is not queried.
ClaimC6_BadDurationIs4xx ==
    (RoutesDone /\ AreasGiven /\ InvalidDuration) =>
        /\ response.status \in 400..499
        /\ queries = <<>>

\* C7: an empty or absent area list is answered with an empty list and
\* status 400 whatever the duration is, and no store is queried.
InvC7_EmptyAreasFirst ==
    (RoutesDone /\ ~AreasGiven) =>
        /\ response.status = 400
        /\ response.kind = "list"
        /\ response.body = <<>>
        /\ queries = <<>>

\* an empty area list sent together with a duration of the wrong length
WitC7_EmptyAreasBadDuration ==
    /\ RoutesDone
    /\ Has(request, "area_affected")
    /\ request["area_affected"] = <<>>
    /\ Has(request, "duration")
    /\ Len(request["duration"]) = 1
    /\ response.status = 400

(***************************************************************************)
(* Properties of POST /get_impacted_bookings.                              *)
(***************************************************************************)
BookingsDone == pc = "done" /\ endpoint = "/get_impacted_bookings"

InputGiven == Has(request, "affected_shipments") /\ request["affected_shipments"] # <<>>

Input == request["affected_shipments"]

\* how many elements of the response body are the stored document with id i
TimesReturned(i) ==
    Cardinality({j \in 1..Len(response.body) : response.body[j]["_id"] = [str |-> i]})

BookingAsked(booking) ==
    \E k \in 1..Len(Input) : Input[k]["BK_NBR"] = booking["booking_number"]

\* C9: for a non-empty shipment list whose elements all carry BK_NBR the
\* handler returns each stored booking whose booking_number is among the
\* BK_NBR values exactly once and no other booking; an empty or absent list
\* is answered with an empty list and the store is not queried.
InvC9_BookingsByMembership ==
    BookingsDone =>
        /\ ~InputGiven =>
              /\ response.kind = "list"
              /\ response.body = <<>>
              /\ queries = <<>>
        /\ (InputGiven /\ ~KeyMissing(Input, "BK_NBR")) =>
              /\ response.status = 200
              /\ response.kind = "list"
              /\ \A i \in 1..Len(db.bookings) :
                    TimesReturned(i) = IF BookingAsked(db.bookings[i]) THEN 1 ELSE 0
              /\ Len(response.body) =
                     Cardinality({i \in 1..Len(db.bookings) : BookingAsked(db.bookings[i])})

\* the same BK_NBR sent twice: its booking comes back once, and a stored
\* booking of another number does not come back
WitC9_RepeatedBookingNumber ==
    /\ BookingsDone /\ InputGiven
    /\ Len(Input) = 2
    /\ ~KeyMissing(Input, "BK_NBR")
    /\ Input[1]["BK_NBR"] = Input[2]["BK_NBR"]
    /\ \E i, j \in 1..Len(db.bookings) :
          /\ TimesReturned(i) = 1
          /\ TimesReturned(j) = 0
    /\ response.status = 200

(***************************************************************************)
(* Properties of POST /get_customer_preferences.                           *)
(***************************************************************************)
ContactsDone == pc = "done" /\ endpoint = "/get_customer_preferences"

Succeeded == response.status = 200 /\ response.kind = "object"

Contacts == response.body.contacts

ContactKeys ==
    {"account_code", "customer_name", "country", "notify1_name", "notify2_name",
     "account_name", "shipper_name", "trdg_prtnr_name",
     "city", "address", "destination_country"}

CarriesAll(shipment, keys) == \A k \in keys : Has(shipment, k)

RequiredSet == {RequiredFields[k] : k \in 1..Len(RequiredFields)}

BookingEmpty(c) == c.account_name = "" /\ c.shipper_name = "" /\ c.trdg_prtnr_name = ""

POEmpty(c) == c.city = <<>> /\ c.address = <<>> /\ c.destination_country = <<>>

\* the contact carries the fields of booking b
BookingFilledFrom(c, b) ==
    /\ c.account_name = b["ACCOUNT_NAME"]
    /\ c.shipper_name = b["shipper_name"]
    /\ c.trdg_prtnr_name = b["TRDG_PRTNR_NAME"]

StoredBookingsOf(shipment) ==
    {b \in 1..Len(db.bookings) :
        Has(shipment, "BK_NBR") /\ db.bookings[b]["booking_number"] = shipment["BK_NBR"]}

\* the number a PO_NBR value stands for, as an integer or as a numeric string
PONumber(x) == IF x.t = "int" THEN x.i ELSE DecVal(x.s)

IsNumeric(x) ==
    \/ x.t = "int"
    \/ x.t = "str" /\ x.s # <<>> /\ \A i \in 1..Len(x.s) : x.s[i] \in AsciiDigits

SamePONumber(x, y) == IsNumeric(x) /\ IsNumeric(y) /\ PONumber(x) = PONumber(y)

\* C2: a non-empty list of shipments that carry every key the handler reads
\* is answered 200 with one contact per shipment whatever the stores hold;
\* every contact has all its keys, and the fields depending on a booking or
\* purchase order that is not stored are empty strings.
ClaimC2_PartialChainNeverFails ==
    (ContactsDone /\ InputGiven
       /\ \A i \in 1..Len(Input) :
             CarriesAll(Input[i], RequiredSet \cup {"CLP_NBR", "BK_NBR"})) =>
        /\ Succeeded
        /\ Len(Contacts) = Len(Input)
        /\ \A i \in 1..Len(Input) :
              /\ DOMAIN Contacts[i] = ContactKeys
              /\ StoredBookingsOf(Input[i]) = {} =>
                    BookingEmpty(Contacts[i]) /\ POEmpty(Contacts[i])
              /\ db.purchase_orders = <<>> => POEmpty(Contacts[i])

\* C3: the booking-derived fields of a contact are filled if and only if the
\* booking store holds a booking whose booking_number is the BK_NBR of that
\* input shipment, whatever the stored shipments are.
ClaimC3_BookingByInputNumber ==
    (ContactsDone /\ Succeeded) =>
        \A i \in 1..Len(Input) :
            ~BookingEmpty(Contacts[i]) <=> StoredBookingsOf(Input[i]) # {}

\* stored bookings of the input shipment's BK_NBR that the handler reaches:
\* their number is the BK_NBR of a stored shipment whose CLP_NBR is in the request
LinkedBookingsOf(shipment) ==
    {b \in StoredBookingsOf(shipment) :
        \E s \in 1..Len(db.shipments), j \in 1..Len(Input) :
            /\ db.shipments[s]["CLP_NBR"] = Input[j]["CLP_NBR"]
            /\ db.shipments[s]["BK_NBR"] = db.bookings[b]["booking_number"]}

\* C3 (amended): the booking-derived fields are filled, from a stored booking
\* of the input shipment's BK_NBR, if and only if such a booking is stored
\* and its booking_number is also the BK_NBR of a stored shipment whose
\* CLP_NBR is one of the request's CLP_NBR values; otherwise they are empty.
InvC3_BookingThroughRefetch ==
    (ContactsDone /\ Succeeded) =>
        \A i \in 1..Len(Input) :
            IF LinkedBookingsOf(Input[i]) = {}
            THEN BookingEmpty(Contacts[i])
            ELSE /\ ~BookingEmpty(Contacts[i])
                 /\ \E b \in LinkedBookingsOf(Input[i]) :
                       BookingFilledFrom(Contacts[i], db.bookings[b])

\* one request resolves a booking for its first shipment and leaves the
\* second without one although a booking of its BK_NBR is stored
WitC3_LinkedAndUnlinked ==
    /\ ContactsDone /\ Succeeded
    /\ Len(Input) = 2
    /\ ~BookingEmpty(Contacts[1])
    /\ BookingEmpty(Contacts[2])
    /\ StoredBookingsOf(Input[2]) # {}

\* C4: for a contact whose booking resolved, the PO-derived fields are filled
\* if and only if a purchase order is stored whose PO number is that
\* booking's PO number, be the booking's PO_NBR an integer or a numeric string.
ClaimC4_POByBookingNumber ==
    (ContactsDone /\ Succeeded) =>
        \A i \in 1..Len(Input) :
            \A b \in StoredBookingsOf(Input[i]) :
                (~BookingEmpty(Contacts[i]) /\ BookingFilledFrom(Contacts[i], db.bookings[b])) =>
                    (~POEmpty(Contacts[i]) <=>
                        \E p \in 1..Len(db.purchase_orders) :
                            SamePONumber(db.purchase_orders[p]["PO_NBR"],
                                         db.bookings[b]["PO_NBR"]))

\* C5: a request with a shipment that lacks one of the five seeded keys is
\* answered with status 500 and an error object, without any contact.
InvC5_MissingFieldFailsRequest ==
    (ContactsDone /\ InputGiven
       /\ \E i \in 1..Len(Input) : ~CarriesAll(Input[i], RequiredSet)) =>
        /\ response.status = 500
        /\ response.kind = "error"
        /\ DOMAIN response.body = {"error"}

\* a complete shipment followed by one without CUST_ACCT_CD, the three
\* fetches done: the request fails as a whole
WitC5_SecondShipmentIncomplete ==
    /\ ContactsDone /\ InputGiven
    /\ Len(Input) = 2
    /\ CarriesAll(Input[1], RequiredSet \cup {"CLP_NBR", "BK_NBR"})
    /\ ~Has(Input[2], "CUST_ACCT_CD")
    /\ queries = <<"shipments", "bookings", "purchase_orders">>
    /\ response.status = 500

\* C10: a successful answer holds one contact per element of the request's
\* list, in the list's order, each seeded from its own shipment.
InvC10_OneContactPerInput ==
    (ContactsDone /\ Succeeded) =>
        /\ Len(Contacts) = Len(Input)
        /\ \A i \in 1..Len(Input) :
              /\ Contacts[i].account_code = Input[i]["CUST_ACCT_CD"]
              /\ Contacts[i].customer_name = Input[i]["CLP_CUST_ACCT_CD"]
              /\ Contacts[i].country = Input[i]["DEST_COUNTRY_CD"]
              /\ Contacts[i].notify1_name = Input[i]["NOTIFY1_NAME"]
              /\ Contacts[i].notify2_name = Input[i]["NOTIFY2_NAME"]

\* two shipments of different accounts, answered in their order although the
\* re-fetch by CLP_NBR finds two stored shipments for the second and none for
\* the first
WitC10_OrderKept ==
    /\ ContactsDone /\ Succeeded
    /\ Len(Input) = 2
    /\ Input[1]["CUST_ACCT_CD"] # Input[2]["CUST_ACCT_CD"]
    /\ Contacts[1].account_code = Input[1]["CUST_ACCT_CD"]
    /\ Contacts[2].account_code = Input[2]["CUST_ACCT_CD"]
    /\ Cardinality({s \in 1..Len(db.shipments) :
                       db.shipments[s]["CLP_NBR"] = Input[2]["CLP_NBR"]}) = 2
    /\ \A s \in 1..Len(db.shipments) : db.shipments[s]["CLP_NBR"] # Input[1]["CLP_NBR"]

(***************************************************************************)
(* Properties of POST /check_blog.                                         *)
(***************************************************************************)
BlogDone == pc = "done" /\ endpoint = "/check_blog"

\* the model answered, and its answer lacks a field of the schema, has null
\* for the boolean, has a string or a number where a list is expected, or
\* has a list with an element that is not a string
SchemaMismatch ==
    /\ collab.llm.called
    /\ collab.llm.error = ""
    /\ \/ \E k \in {"is_weather_forecast", "area_affected", "duration"} :
             ~Has(collab.llm.payload, k)
       \/ collab.llm.payload["is_weather_forecast"].t = "null"
       \/ \E k \in {"area_affected", "duration"} :
             \/ collab.llm.payload[k].t \in {"str", "num"}
             \/ \E i \in 1..Len(collab.llm.payload[k].items) :
                   collab.llm.payload[k].items[i].t # "str"

\* C8: an answer of the model that does not match the schema ends in a 4xx
\* error response that carries an error message and the raw answer or a
\* placeholder for it; no exception leaves the handler, wherever the
\* ValidationError is raised.
ClaimC8_SchemaMismatchIs4xx ==
    (BlogDone /\ SchemaMismatch) =>
        /\ response.kind = "error"
        /\ response.status \in 400..499
        /\ Has(response.body, "error")
        /\ Has(response.body, "raw_ai_response")

====
